---------------------------- MODULE Spec2Model ----------------------------
(***************************************************************************)
(* Model of the analysis pipeline of PayForMyMembership: the EVE Online    *)
(* analyzer (src/src/eve.js) and the Old School RuneScape analyzer         *)
(* (src/src/osrs.js).                                                      *)
(*                                                                         *)
(* Numbers.  The program computes with IEEE doubles; the model computes    *)
(* with exact integers on a fixed-point grid:                              *)
(*   - a percentage (priceChange, volatility, momentum) is an integer      *)
(*     number of 1/Unit percent;                                           *)
(*   - a score is an integer number of quarter units, 1/(4*Unit) point,    *)
(*     which makes every bucket of the scoring formula exact;              *)
(*   - money (prices, budgets) is an integer number of money units.        *)
(***************************************************************************)
EXTENDS Integers, Sequences, FiniteSets, TLC

VARIABLES
    \* ---- scoring (calculateInvestmentScore of both markets)
    scoreArgs,      \* [priceChange, volatility, momentum, currentPrice, budget]
    scoreDone,      \* which variants have been applied: subset of {"eve","osrs"}
    scoreEve,       \* result of the EVE variant, quarter units
    scoreOsrs,      \* result of the OSRS variant, quarter units
    \* ---- feature extraction (calculatePriceChange / Volatility / Momentum)
    series,         \* the prices of a chronologically ordered series
    featDone,       \* whether the feature functions have been applied
    featEve,        \* [priceChange, volatility, momentum] of the EVE functions
    featOsrs,       \* [priceChange, volatility, momentum] of the OSRS functions
    \* ---- budget parsing (parseISKAmount / parseGoldAmount)
    amountInput,    \* the budget string, a sequence of characters
    amountDone,     \* whether the string has been parsed
    amountEve,      \* parseISKAmount(amountInput), a decimal [nan, mant, exp]
    amountOsrs,     \* parseGoldAmount(amountInput)
    amountRejected, \* the caller's check: isNaN(budget) || budget <= 0
    \* ---- the OSRS catalog filter applied to one entry
    filterItem,     \* a catalog entry [name, price, volume, limit, members]
    filterBudget,   \* the validated budget
    filterMembers,  \* includeMembers
    filterVerdict,  \* "pending", then the rule that rejected the entry or "keep"
    \* ---- the series handed to the feature functions by analyzeItem
    rawHistory,     \* EVE: the history array as received, [date, average] each
    rawDaily,       \* OSRS: the daily object, a set of <<timestamp, price>>
    normDone,       \* which variants have been applied: subset of {"eve","osrs"}
    normEve,        \* the array eve.js analyzeItem hands to the feature functions
    normOsrs,       \* convertToArray(rawDaily)
    \* ---- one run of runEVE, runEVEAutomated, runOSRS or runOSRSAutomated
    entry,          \* the function that runs
    phase,          \* "start", "fetching", "delaying", "done" or "error"
    budgetInput,    \* the budget string, a sequence of characters
    countInput,     \* maxItems, or the parsed answer to "How many items"
    withMembers,    \* includeMembers of the OSRS runs
    catalogSize,    \* number of entries of the catalog source
    runBudget,      \* the parsed budget, whole money units
    itemsToAnalyze, \* the shuffled (and cut) candidates, [id, name] each
    loopIndex,      \* i, the loop index
    itemsChecked,   \* counter of the loop
    successfulAnalyses, \* counter of the automated loops
    runResults,     \* results, the analyses collected; ranked once phase = "done"
    collected,      \* history variable: results as they were before the sort
    fetched,        \* history variable: the ids whose series were requested
    replies,        \* history variable: what each of these fetches returned
    delays,         \* history variable: the milliseconds of each delay started
    recommendations \* the list returned (automated) or displayed (top 3)

scoreVars == <<scoreArgs, scoreDone, scoreEve, scoreOsrs>>

featVars == <<series, featDone, featEve, featOsrs>>

amountVars == <<amountInput, amountDone, amountEve, amountOsrs, amountRejected>>

filterVars == <<filterItem, filterBudget, filterMembers, filterVerdict>>

normVars == <<rawHistory, rawDaily, normDone, normEve, normOsrs>>

runVars == <<entry, phase, budgetInput, countInput, withMembers, catalogSize,
             runBudget, itemsToAnalyze, loopIndex, itemsChecked, successfulAnalyses,
             runResults, collected, fetched, replies, delays, recommendations>>

vars == <<scoreVars, featVars, amountVars, filterVars, normVars, runVars>>

\* What the actions of one specification leave alone.
notScoreVars == <<featVars, amountVars, filterVars, runVars, normVars>>

notFeatVars == <<scoreVars, amountVars, filterVars, runVars, normVars>>

notAmountVars == <<scoreVars, featVars, filterVars, runVars, normVars>>

notFilterVars == <<scoreVars, featVars, amountVars, runVars, normVars>>

notNormVars == <<scoreVars, featVars, amountVars, filterVars, runVars>>

notRunVars == <<scoreVars, featVars, amountVars, filterVars, normVars>>

-----------------------------------------------------------------------------
(* Arithmetic helpers *)

\* Resolution of the fixed-point grid: percentages are counted in 1/Unit.
Unit == 100

\* Magnitude of the "very large / very negative" feature values, in percent.
Extreme == 100000

\* One score point, in quarter units.
Q == 4 * Unit

Min(a, b) == IF a <= b THEN a ELSE b

Max(a, b) == IF a >= b THEN a ELSE b

Abs(a) == IF a < 0 THEN -a ELSE a

\* Math.floor(a / b) for b > 0 (TLA+ \div already rounds towards -infinity).
FloorDiv(a, b) == a \div b

\* a / b rounded to the nearest integer, halves away from zero, for b > 0:
\* the rounding of Number.prototype.toFixed.
RoundDiv(a, b) == IF a >= 0 THEN (2 * a + b) \div (2 * b)
                            ELSE -((2 * (-a) + b) \div (2 * b))

\* The JavaScript comparison  budget / currentPrice >= t  for t > 0, decided
\* without dividing: x/0 is +Infinity, -Infinity or NaN, and NaN >= t is false.
RatioAtLeast(budget, currentPrice, t) ==
    IF currentPrice > 0 THEN budget >= t * currentPrice
    ELSE IF currentPrice < 0 THEN budget <= t * currentPrice
    ELSE budget > 0

\* The three IEEE values that are no real number.  They lie outside the range
\* of every finite value of the model; PosInf and NegInf order like very large
\* numbers, NaN is kept out of every comparison by the Js* operators below.
PosInf == 10 * Extreme * Unit

NegInf == -PosInf

NaN == PosInf + 1

IsFinite(x) == x \notin {NaN, PosInf, NegInf}

\* JavaScript comparisons with a finite right-hand side: false on NaN.
JsGe(x, c) == x # NaN /\ x >= c

JsGt(x, c) == x # NaN /\ x > c

JsLt(x, c) == x # NaN /\ x < c

\* (a / b) * 100 for finite a and b, as a percentage on the grid: the IEEE
\* quotient is NaN for 0/0 and an infinity for x/0.
JsPercent(a, b) ==
    IF b = 0 THEN (IF a = 0 THEN NaN ELSE IF a > 0 THEN PosInf ELSE NegInf)
    ELSE IF b > 0 THEN RoundDiv(a * 100 * Unit, b)
    ELSE RoundDiv(-a * 100 * Unit, -b)

\* Math.floor(a / b) for finite a >= 0 and b >= 0.
JsFloorRatio(a, b) ==
    IF b = 0 THEN (IF a = 0 THEN NaN ELSE PosInf) ELSE FloorDiv(a, b)

\* Number.prototype.toFixed(2) of a percentage, in hundredths.
ToFixed2(x) == IF IsFinite(x) THEN RoundDiv(x * 100, Unit) ELSE x

\* Number.prototype.toFixed(1) of a score, in tenths.
ToFixed1(x) == IF IsFinite(x) THEN RoundDiv(x * 10, Q) ELSE x

\* floor of the square root of n >= 0, by bisection on [lo, hi].
RECURSIVE IsqrtIn(_, _, _)
IsqrtIn(n, lo, hi) ==
    IF lo >= hi THEN lo
    ELSE LET mid == (lo + hi + 1) \div 2
         IN  IF mid * mid <= n THEN IsqrtIn(n, mid, hi)
                               ELSE IsqrtIn(n, lo, mid - 1)

\* 46340 = floor(sqrt(2^31 - 1)): the largest root of a TLC integer.
Isqrt(n) == IsqrtIn(n, 0, Min(n, 46340))

-----------------------------------------------------------------------------
(* ScoringEngine: src/src/eve.js calculateInvestmentScore *)

\* A raw EVE score whose breakout bonus is granted at the thresholds too
\* (>= where the code compares with >).
EveRawScoreBonusInclusive(priceChange, volatility, momentum, currentPrice, budget) ==
    LET volBucket == IF JsGe(volatility, 10 * Unit) THEN 25 * Q ELSE volatility * 10
        momBucket == IF JsGt(momentum, 0) THEN Min(momentum * 10, 25 * Q) ELSE 0
        pcBucket  == IF JsGe(priceChange, 20 * Unit) THEN 20 * Q
                     ELSE IF JsGt(priceChange, 0) THEN priceChange * 4
                     ELSE IF JsLt(priceChange, 0) /\ JsGt(priceChange, -10 * Unit)
                          THEN 10 * Q
                     ELSE 0
        affBucket == IF RatioAtLeast(budget, currentPrice, 100) THEN 20 * Q
                     ELSE IF RatioAtLeast(budget, currentPrice, 50) THEN 15 * Q
                     ELSE IF RatioAtLeast(budget, currentPrice, 20) THEN 10 * Q
                     ELSE IF RatioAtLeast(budget, currentPrice, 10) THEN 5 * Q
                     ELSE 0
        hot       == IF JsGe(momentum, 5 * Unit) /\ JsGe(priceChange, 15 * Unit)
                        /\ JsGe(volatility, 8 * Unit)
                     THEN 10 * Q ELSE 0
    IN  50 * Q + volBucket + momBucket + pcBucket + affBucket + hot

\* A raw EVE score whose momentum bucket is added whatever the sign of the
\* momentum.
EveRawScoreUnguardedMomentum(priceChange, volatility, momentum, currentPrice, budget) ==
    LET volBucket == IF JsGe(volatility, 10 * Unit) THEN 25 * Q ELSE volatility * 10
        momBucket == Min(momentum * 10, 25 * Q)
        pcBucket  == IF JsGe(priceChange, 20 * Unit) THEN 20 * Q
                     ELSE IF JsGt(priceChange, 0) THEN priceChange * 4
                     ELSE IF JsLt(priceChange, 0) /\ JsGt(priceChange, -10 * Unit)
                          THEN 10 * Q
                     ELSE 0
        affBucket == IF RatioAtLeast(budget, currentPrice, 100) THEN 20 * Q
                     ELSE IF RatioAtLeast(budget, currentPrice, 50) THEN 15 * Q
                     ELSE IF RatioAtLeast(budget, currentPrice, 20) THEN 10 * Q
                     ELSE IF RatioAtLeast(budget, currentPrice, 10) THEN 5 * Q
                     ELSE 0
        hot       == IF JsGt(momentum, 5 * Unit) /\ JsGt(priceChange, 15 * Unit)
                        /\ JsGt(volatility, 8 * Unit)
                     THEN 10 * Q ELSE 0
    IN  50 * Q + volBucket + momBucket + pcBucket + affBucket + hot

\* The score before the final clamp (eve.js lines 235-277), for a volatility
\* that is not NaN.  A NaN momentum or price change fails every comparison and
\* adds nothing.
EveRawScore(priceChange, volatility, momentum, currentPrice, budget) ==
    LET base == 50 * Q
        volBucket == IF JsGe(volatility, 10 * Unit) THEN 25 * Q
                     ELSE volatility * 10              \* (volatility / 10) * 25
        momBucket == IF JsGt(momentum, 0)
                     THEN Min(momentum * 10, 25 * Q)   \* min(momentum * 2.5, 25)
                     ELSE 0
        pcBucket  == IF JsGe(priceChange, 20 * Unit) THEN 20 * Q
                     ELSE IF JsGt(priceChange, 0) THEN priceChange * 4  \* (pc / 20) * 20
                     ELSE IF JsLt(priceChange, 0) /\ JsGt(priceChange, -10 * Unit)
                          THEN 10 * Q
                     ELSE 0
        \* affordability = Math.min(budget / currentPrice, 100)
        affBucket == IF RatioAtLeast(budget, currentPrice, 100) THEN 20 * Q
                     ELSE IF RatioAtLeast(budget, currentPrice, 50) THEN 15 * Q
                     ELSE IF RatioAtLeast(budget, currentPrice, 20) THEN 10 * Q
                     ELSE IF RatioAtLeast(budget, currentPrice, 10) THEN 5 * Q
                     ELSE 0
        hot       == IF JsGt(momentum, 5 * Unit) /\ JsGt(priceChange, 15 * Unit)
                        /\ JsGt(volatility, 8 * Unit)
                     THEN 10 * Q ELSE 0
    IN  base + volBucket + momBucket + pcBucket + affBucket + hot

\* A scoring function that forgets the final clamp.
EveScoreUnclamped(priceChange, volatility, momentum, currentPrice, budget) ==
    EveRawScore(priceChange, volatility, momentum, currentPrice, budget)

\* return Math.max(0, Math.min(100, score)).  A NaN volatility makes the
\* volatility bucket, hence the score, NaN, and Math.min / Math.max keep NaN.
EveCalculateInvestmentScore(priceChange, volatility, momentum, currentPrice, budget) ==
    IF volatility = NaN THEN NaN
    ELSE Max(0, Min(100 * Q,
             EveRawScore(priceChange, volatility, momentum, currentPrice, budget)))

(* ScoringEngine: src/src/osrs.js calculateInvestmentScore *)

\* The score before the final clamp (osrs.js lines 171-208), for a volatility
\* and a momentum that are not NaN.
OsrsRawScore(priceChange, volatility, momentum, currentPrice, budget) ==
    LET base == 50 * Q
        volBucket == IF JsGe(volatility, 20 * Unit) THEN 25 * Q
                     ELSE volatility * 5               \* (volatility / 20) * 25
        \* score += Math.min(momentum * 2.5, 25), also for momentum <= 0
        momBucket == Min(momentum * 10, 25 * Q)
        pcBucket  == IF JsGe(priceChange, 40 * Unit) THEN 20 * Q
                     ELSE IF JsGt(priceChange, 0) THEN priceChange * 2  \* (pc / 40) * 20
                     ELSE 0
        \* affordability = Math.min(budget / currentPrice, 50)
        affBucket == IF RatioAtLeast(budget, currentPrice, 50) THEN 20 * Q
                     ELSE IF RatioAtLeast(budget, currentPrice, 20) THEN 15 * Q
                     ELSE IF RatioAtLeast(budget, currentPrice, 10) THEN 10 * Q
                     ELSE IF RatioAtLeast(budget, currentPrice, 5) THEN 5 * Q
                     ELSE 0
        hot       == IF JsGt(momentum, 10 * Unit) /\ JsGt(priceChange, 30 * Unit)
                        /\ JsGt(volatility, 15 * Unit)
                     THEN 10 * Q ELSE 0
    IN  base + volBucket + momBucket + pcBucket + affBucket + hot

\* return Math.max(0, Math.min(100, score)).  The volatility bucket and the
\* unguarded momentum bucket make the score NaN when either input is NaN.
OsrsCalculateInvestmentScore(priceChange, volatility, momentum, currentPrice, budget) ==
    IF volatility = NaN \/ momentum = NaN THEN NaN
    ELSE Max(0, Min(100 * Q,
             OsrsRawScore(priceChange, volatility, momentum, currentPrice, budget)))

-----------------------------------------------------------------------------
(* Budget parsing: parseISKAmount (eve.js) and parseGoldAmount (osrs.js).   *)
(* A string is a sequence of one-character strings.  A parsed amount is a  *)
(* decimal [nan, mant, exp] of value mant * 10^exp, normalised so that     *)
(* mant has no trailing zero; this keeps 6000000000 within TLC's integers. *)

NotANumber == [nan |-> TRUE, mant |-> 0, exp |-> 0]

RECURSIVE Normalised(_, _)
Normalised(mant, exp) ==
    IF mant = 0 THEN [nan |-> FALSE, mant |-> 0, exp |-> 0]
    ELSE IF mant % 10 = 0 THEN Normalised(mant \div 10, exp + 1)
    ELSE [nan |-> FALSE, mant |-> mant, exp |-> exp]

\* The decimal mant * 10^exp.
Decimal(mant, exp) == Normalised(mant, exp)

\* x * 10^k, the products  * 1000,  * 1000000  and  * 1000000000.
TimesPow10(x, k) == IF x.nan THEN NotANumber ELSE Normalised(x.mant, x.exp + k)

DigitChars == <<"0", "1", "2", "3", "4", "5", "6", "7", "8", "9">>

IsDigit(c) == \E i \in 1..Len(DigitChars) : DigitChars[i] = c

DigitValue(c) == (CHOOSE i \in 1..Len(DigitChars) : DigitChars[i] = c) - 1

IsSpace(c) == c = " "

\* String.prototype.toLowerCase, on the letters the inputs are made of.
UpperChars == <<"A", "B", "C", "K", "M">>

LowerChars == <<"a", "b", "c", "k", "m">>

LowerChar(c) ==
    IF \E i \in 1..Len(UpperChars) : UpperChars[i] = c
    THEN LowerChars[CHOOSE i \in 1..Len(UpperChars) : UpperChars[i] = c]
    ELSE c

ToLowerCase(str) == [i \in 1..Len(str) |-> LowerChar(str[i])]

\* Index of the first character at or after i that is no space (Len + 1 if none).
RECURSIVE SkipSpaces(_, _)
SkipSpaces(str, i) ==
    IF i <= Len(str) /\ IsSpace(str[i]) THEN SkipSpaces(str, i + 1) ELSE i

\* Index of the last character at or before i that is no space (0 if none).
RECURSIVE SkipSpacesBack(_, _)
SkipSpacesBack(str, i) ==
    IF i >= 1 /\ IsSpace(str[i]) THEN SkipSpacesBack(str, i - 1) ELSE i

\* String.prototype.trim
Trim(str) == SubSeq(str, SkipSpaces(str, 1), SkipSpacesBack(str, Len(str)))

\* str.replace(/,/g, '')
StripCommas(str) == SelectSeq(str, LAMBDA c : c # ",")

\* str.endsWith(c) for a one-character c
EndsWith(str, c) == Len(str) >= 1 /\ str[Len(str)] = c

\* Index after the run of digits that starts at i.
RECURSIVE SkipDigits(_, _)
SkipDigits(str, i) ==
    IF i <= Len(str) /\ IsDigit(str[i]) THEN SkipDigits(str, i + 1) ELSE i

\* Value of the digits str[lo..hi] read as a decimal integer.
RECURSIVE DigitsValue(_, _, _)
DigitsValue(str, lo, hi) ==
    IF lo > hi THEN 0
    ELSE 10 * DigitsValue(str, lo, hi - 1) + DigitValue(str[hi])

\* parseFloat: leading white space is skipped, then the longest prefix that is
\* a decimal literal (sign, digits, point, digits) is converted and the rest
\* of the string ignored; NaN when that prefix holds no digit.  The inputs of
\* the model contain neither an exponent nor the word Infinity.
ParseFloat(str) ==
    LET start    == SkipSpaces(str, 1)
        signed   == start <= Len(str) /\ str[start] \in {"-", "+"}
        negative == signed /\ str[start] = "-"
        intFrom  == IF signed THEN start + 1 ELSE start
        intTo    == SkipDigits(str, intFrom)            \* exclusive
        hasPoint == intTo <= Len(str) /\ str[intTo] = "."
        fracFrom == intTo + 1
        fracTo   == IF hasPoint THEN SkipDigits(str, fracFrom) ELSE fracFrom
        intLen   == intTo - intFrom
        fracLen  == IF hasPoint THEN fracTo - fracFrom ELSE 0
        mant     == DigitsValue(str, intFrom, intTo - 1)
        frac     == IF fracLen > 0 THEN DigitsValue(str, fracFrom, fracTo - 1) ELSE 0
        scaled   == LET RECURSIVE Shift(_, _)
                        Shift(v, k) == IF k = 0 THEN v ELSE Shift(10 * v, k - 1)
                    IN  Shift(mant, fracLen) + frac
    IN  IF intLen + fracLen = 0 THEN NotANumber
        ELSE Normalised(IF negative THEN -scaled ELSE scaled, -fracLen)

\* A parser that tests the suffix on the raw input and forgets toLowerCase.
ParseAmountCaseSensitive(input) ==
    LET cleaned == StripCommas(Trim(input))
    IN  IF EndsWith(cleaned, "k") THEN TimesPow10(ParseFloat(cleaned), 3)
        ELSE IF EndsWith(cleaned, "m") THEN TimesPow10(ParseFloat(cleaned), 6)
        ELSE IF EndsWith(cleaned, "b") THEN TimesPow10(ParseFloat(cleaned), 9)
        ELSE ParseFloat(cleaned)

\* eve.js parseISKAmount
ParseISKAmount(input) ==
    LET cleaned == StripCommas(Trim(ToLowerCase(input)))
    IN  IF EndsWith(cleaned, "k") THEN TimesPow10(ParseFloat(cleaned), 3)
        ELSE IF EndsWith(cleaned, "m") THEN TimesPow10(ParseFloat(cleaned), 6)
        ELSE IF EndsWith(cleaned, "b") THEN TimesPow10(ParseFloat(cleaned), 9)
        ELSE ParseFloat(cleaned)

\* osrs.js parseGoldAmount
ParseGoldAmount(input) ==
    LET cleaned == StripCommas(Trim(ToLowerCase(input)))
    IN  IF EndsWith(cleaned, "k") THEN TimesPow10(ParseFloat(cleaned), 3)
        ELSE IF EndsWith(cleaned, "m") THEN TimesPow10(ParseFloat(cleaned), 6)
        ELSE IF EndsWith(cleaned, "b") THEN TimesPow10(ParseFloat(cleaned), 9)
        ELSE ParseFloat(cleaned)

\* isNaN(budget) || budget <= 0
\* A check that only rejects what is not a number.
InvalidBudgetNaNOnly(budget) == budget.nan

InvalidBudget(budget) == budget.nan \/ budget.mant <= 0

-----------------------------------------------------------------------------
(* CandidateFilter: the filter callback of runOSRS and runOSRSAutomated.    *)
(* A catalog entry is [name, price, volume, limit, members]: name is ""    *)
(* when missing, an optional number is <<>> when undefined and <<v>>       *)
(* otherwise, members is "true", "false" or "undefined".                   *)

IsDefined(field) == field # <<>>

ValueOf(field) == field[1]

\* The filter as it stood before the limit became optional: an entry without
\* a limit fails the required-data test.
OsrsFilterLimitRequired(item, budget, includeMembers) ==
    IF item.name = "" \/ ~IsDefined(item.price) \/ ~IsDefined(item.volume)
       \/ ~IsDefined(item.limit)
    THEN "required"
    ELSE IF ~includeMembers /\ item.members # "false" THEN "members"
    ELSE LET unitsCanBuy == JsFloorRatio(budget, ValueOf(item.price))
         IN  IF unitsCanBuy > ValueOf(item.limit) THEN "limit"
             ELSE IF unitsCanBuy * 10 > ValueOf(item.volume) THEN "volume"
             ELSE "keep"

\* osrs.js lines 325-352 (runOSRS) and 466-487 (runOSRSAutomated): the rule
\* that returns false for the entry, or "keep".  unitsCanBuy > volume * 0.1
\* is decided as 10 * unitsCanBuy > volume.
OsrsFilter(item, budget, includeMembers) ==
    IF item.name = "" \/ ~IsDefined(item.price) \/ ~IsDefined(item.volume)
    THEN "required"
    ELSE IF ~includeMembers /\ item.members # "false" THEN "members"
    ELSE LET unitsCanBuy == JsFloorRatio(budget, ValueOf(item.price))
         IN  IF IsDefined(item.limit) /\ unitsCanBuy > ValueOf(item.limit)
             THEN "limit"
             ELSE IF unitsCanBuy * 10 > ValueOf(item.volume) THEN "volume"
             ELSE "keep"

-----------------------------------------------------------------------------
(* FeatureExtractor *)

\* Sum of s[lo..hi], by halves.
RECURSIVE SumRange(_, _, _)
SumRange(s, lo, hi) ==
    IF lo > hi THEN 0
    ELSE IF lo = hi THEN s[lo]
    ELSE LET mid == (lo + hi) \div 2
         IN  SumRange(s, lo, mid) + SumRange(s, mid + 1, hi)

\* s.reduce((a, b) => a + b, 0)
SumSeq(s) == SumRange(s, 1, Len(s))

SumSquares(s) == SumSeq([i \in 1..Len(s) |-> s[i] * s[i]])

\* Array.prototype.slice(-k): the last k elements (all of them when fewer).
LastK(s, k) == SubSeq(s, Max(1, Len(s) - k + 1), Len(s))

\* Array.prototype.slice(-hi, -lo) for hi > lo > 0.
SliceFromEnd(s, hi, lo) == SubSeq(s, Max(1, Len(s) - hi + 1), Len(s) - lo)

\* (stdDev / mean) * 100 of a sequence of n >= 1 prices.  With S the sum and
\* S2 the sum of squares, mean = S/n and variance = (n*S2 - S*S)/n^2, so
\* stdDev / mean = sqrt(n*S2 - S*S) / S.  The square root is taken to one
\* decimal place, the quotient to the grid.
VolatilityOf(prices) ==
    LET n  == Len(prices)
        S  == SumSeq(prices)
        D  == n * SumSquares(prices) - S * S
        sd == Isqrt(D * 100)                 \* 10 * n * stdDev
    IN  IF S = 0 THEN (IF D = 0 THEN NaN ELSE PosInf)
        ELSE RoundDiv(sd * 10 * Unit, S)

\* A volatility whose squared differences are taken from zero, not from the
\* mean: sqrt(mean of squares) / mean.
VolatilityNotCentred(prices) ==
    LET n  == Len(prices)
        S  == SumSeq(prices)
        sd == 10 * Isqrt(n * SumSquares(prices))
    IN  IF S = 0 THEN NaN ELSE RoundDiv(sd * 10 * Unit, S)

\* A momentum whose older window is the first 30 points of the series
\* instead of the 30 points before the recent window.
MomentumFromStart(prices) ==
    LET recent30 == LastK(prices, 30)
        first30  == SubSeq(prices, 1, 30)
    IN  JsPercent(SumSeq(recent30) - SumSeq(first30), SumSeq(first30))

\* ((recent30Avg - previous30Avg) / previous30Avg) * 100; both windows hold 30
\* prices, so the quotient of the averages is the quotient of the sums.
MomentumOf(prices) ==
    LET recent30   == LastK(prices, 30)
        previous30 == SliceFromEnd(prices, 60, 30)
    IN  JsPercent(SumSeq(recent30) - SumSeq(previous30), SumSeq(previous30))

(* src/src/eve.js: history is an array of {date, average, volume} *)

EvePrices(history) == [i \in 1..Len(history) |-> history[i].average]

\* A price change measured against the last price instead of the first.
EvePriceChangeOverLast(history) ==
    IF Len(history) < 2 THEN 0
    ELSE JsPercent(history[Len(history)].average - history[1].average,
                   history[Len(history)].average)

EveCalculatePriceChange(history) ==
    IF Len(history) < 2 THEN 0
    ELSE LET firstPrice == history[1].average
             lastPrice  == history[Len(history)].average
         IN  JsPercent(lastPrice - firstPrice, firstPrice)

\* A volatility that does not centre the prices on their mean.
EveVolatilityNotCentred(history) ==
    IF Len(history) < 2 THEN 0 ELSE VolatilityNotCentred(EvePrices(history))

EveCalculateVolatility(history) ==
    IF Len(history) < 2 THEN 0 ELSE VolatilityOf(EvePrices(history))

\* A momentum without the length guard: on fewer than 31 points the previous
\* window is empty and its average is 0/0.
EveMomentumNoGuard(history) ==
    IF Len(history) <= 30 THEN NaN ELSE MomentumOf(EvePrices(history))

EveCalculateMomentum(history) ==
    IF Len(history) < 60 THEN 0 ELSE MomentumOf(EvePrices(history))

(* src/src/osrs.js: prices is an array of {timestamp, price} *)

OsrsPrices(prices) == [i \in 1..Len(prices) |-> prices[i].price]

OsrsCalculatePriceChange(prices) ==
    IF Len(prices) < 2 THEN 0
    ELSE LET firstPrice == prices[1].price
             lastPrice  == prices[Len(prices)].price
         IN  JsPercent(lastPrice - firstPrice, firstPrice)

OsrsCalculateVolatility(prices) ==
    IF Len(prices) < 2 THEN 0 ELSE VolatilityOf(OsrsPrices(prices))

OsrsCalculateMomentum(prices) ==
    IF Len(prices) < 60 THEN 0 ELSE MomentumOf(OsrsPrices(prices))

-----------------------------------------------------------------------------
(* analyzeItem and the Ranker.  null is <<>> and a value v is <<v>>.        *)

\* d as an integer, for a decimal without fraction.
RECURSIVE DecimalToInt(_)
DecimalToInt(d) ==
    IF d.exp = 0 THEN d.mant
    ELSE DecimalToInt([nan |-> FALSE, mant |-> d.mant * 10, exp |-> d.exp - 1])

\* The entry x, a record [key, value], inserted into the sequence s sorted
\* by key, behind every entry whose key is not greater: one step of a
\* stable sort.
RECURSIVE InsertStable(_, _)
InsertStable(s, x) ==
    IF s = <<>> THEN <<x>>
    ELSE IF x.key < s[Len(s)].key
         THEN Append(InsertStable(SubSeq(s, 1, Len(s) - 1), x), s[Len(s)])
         ELSE Append(s, x)

RECURSIVE SortEntries(_)
SortEntries(s) ==
    IF s = <<>> THEN <<>>
    ELSE InsertStable(SortEntries(SubSeq(s, 1, Len(s) - 1)), s[Len(s)])

\* Array.prototype.sort with a comparator that is the difference of the
\* keys, keys[i] the key of s[i]: a stable sort into ascending keys.
SortStable(s, keys) ==
    LET sorted == SortEntries([i \in 1..Len(s) |-> [key |-> keys[i], value |-> s[i]]])
    IN  [i \in 1..Len(s) |-> sorted[i].value]

\* A slice that does not cut.
SliceWhole(s, n) == s

\* Array.prototype.slice(0, n): a negative n counts from the end.
SliceTo(s, n) ==
    IF n >= 0 THEN SubSeq(s, 1, Min(n, Len(s)))
    ELSE SubSeq(s, 1, Max(0, Len(s) + n))

\* Money in the EVE market: an average price is a number of 1/100 ISK, a
\* budget a number of ISK.
\* history.sort((a, b) => new Date(a.date) - new Date(b.date))
EveSortByDate(history) ==
    SortStable(history, [i \in 1..Len(history) |-> history[i].date])

\* An analyzeItem that reads the last element of the history as received.
EveAnalyzeItemUnsorted(response, itemInfo, budget) ==
    IF response = <<>> \/ response[1] = <<>> THEN <<>>
    ELSE LET history      == response[1]
             currentPrice == history[Len(history)].average
         IN  <<[id |-> itemInfo.id,
                name |-> itemInfo.name,
                currentPrice |-> RoundDiv(currentPrice, 100),
                unitsCanBuy |-> JsFloorRatio(budget * 100, currentPrice),
                priceChange |-> ToFixed2(EveCalculatePriceChange(history)),
                volatility |-> ToFixed2(EveCalculateVolatility(history)),
                momentum |-> ToFixed2(EveCalculateMomentum(history)),
                volume |-> history[Len(history)].volume,
                investmentScore |-> ToFixed1(EveCalculateInvestmentScore(
                    EveCalculatePriceChange(history), EveCalculateVolatility(history),
                    EveCalculateMomentum(history), currentPrice, budget * 100)),
                dataPoints |-> Len(history)]>>

\* eve.js analyzeItem.  response is null or the history array.
EveAnalyzeItem(response, itemInfo, budget) ==
    IF response = <<>> \/ response[1] = <<>> THEN <<>>
    ELSE LET history      == EveSortByDate(response[1])
             priceChange  == EveCalculatePriceChange(history)
             volatility   == EveCalculateVolatility(history)
             momentum     == EveCalculateMomentum(history)
             currentPrice == history[Len(history)].average
             currentVolume == history[Len(history)].volume
             unitsCanBuy  == JsFloorRatio(budget * 100, currentPrice)
             investmentScore == EveCalculateInvestmentScore(priceChange, volatility,
                                    momentum, currentPrice, budget * 100)
         IN  <<[id |-> itemInfo.id,
                name |-> itemInfo.name,
                currentPrice |-> RoundDiv(currentPrice, 100),   \* Math.round
                unitsCanBuy |-> unitsCanBuy,
                priceChange |-> ToFixed2(priceChange),
                volatility |-> ToFixed2(volatility),
                momentum |-> ToFixed2(momentum),
                volume |-> currentVolume,
                investmentScore |-> ToFixed1(investmentScore),
                dataPoints |-> Len(history)]>>

\* A loop body without the volume filter.
EveCollectUnfiltered(results, response, item, budget) ==
    LET analysis == EveAnalyzeItem(response, item, budget)
    IN  IF analysis # <<>> THEN Append(results, analysis[1]) ELSE results

\* The loop body of runEVE and runEVEAutomated after the fetch returned:
\* the results with the analysis appended when it passes the volume filter
\* analysis.unitsCanBuy <= analysis.volume * 0.1.
EveCollect(results, response, item, budget) ==
    LET analysis == EveAnalyzeItem(response, item, budget)
    IN  IF analysis # <<>> /\ analysis[1].unitsCanBuy * 10 <= analysis[1].volume
        THEN Append(results, analysis[1])
        ELSE results

\* osrs.js convertToArray: the {timestamp: price} object, a set of
\* <<timestamp, price>> pairs here, as an array sorted by timestamp.
RECURSIVE ConvertToArray(_)
ConvertToArray(daily) ==
    IF daily = {} THEN <<>>
    ELSE LET first == CHOOSE e \in daily : \A o \in daily : e[1] <= o[1]
         IN  <<[timestamp |-> first[1], price |-> first[2]]>>
             \o ConvertToArray(daily \ {first})

\* osrs.js analyzeItem.  priceData is null or [daily], daily undefined or the
\* object of the daily prices.
OsrsAnalyzeItem(priceData, itemInfo, budget) ==
    IF priceData = <<>> \/ priceData[1].daily = <<>> THEN <<>>
    ELSE LET prices == ConvertToArray(priceData[1].daily[1])
         IN  IF Len(prices) = 0 THEN <<>>
             ELSE LET priceChange  == OsrsCalculatePriceChange(prices)
                      volatility   == OsrsCalculateVolatility(prices)
                      momentum     == OsrsCalculateMomentum(prices)
                      currentPrice == prices[Len(prices)].price
                      startPrice   == prices[1].price
                      unitsCanBuy  == JsFloorRatio(budget, currentPrice)
                      investmentScore == OsrsCalculateInvestmentScore(priceChange,
                                             volatility, momentum, currentPrice, budget)
                  IN  <<[id |-> itemInfo.id,
                         name |-> itemInfo.name,
                         currentPrice |-> currentPrice,
                         startPrice |-> startPrice,
                         unitsCanBuy |-> unitsCanBuy,
                         priceChange |-> ToFixed2(priceChange),
                         volatility |-> ToFixed2(volatility),
                         momentum |-> ToFixed2(momentum),
                         investmentScore |-> ToFixed1(investmentScore),
                         dataPoints |-> Len(prices)]>>

\* The loop body of runOSRS and runOSRSAutomated after the fetch returned.
OsrsCollect(results, priceData, item, budget) ==
    LET analysis == OsrsAnalyzeItem(priceData, item, budget)
    IN  IF analysis # <<>> THEN Append(results, analysis[1]) ELSE results

\* A ranking by descending score that reverses the collection order of ties.
SortByScoreTiesReversed(results) ==
    LET n == Len(results)
        reversed == [i \in 1..n |-> results[n + 1 - i]]
    IN  SortStable(reversed, [i \in 1..n |-> 0 - reversed[i].investmentScore])

\* results.sort((a, b) => parseFloat(b.investmentScore) - parseFloat(a.investmentScore))
\* b - a ascending is a descending.
SortByScore(results) ==
    SortStable(results, [i \in 1..Len(results) |-> 0 - results[i].investmentScore])

-----------------------------------------------------------------------------
(* The state of a component that a specification does not exercise. *)

NoFeatures == [priceChange |-> 0, volatility |-> 0, momentum |-> 0]

IdleScore ==
    /\ scoreArgs = [priceChange |-> 0, volatility |-> 0, momentum |-> 0,
                    money |-> <<1, 1>>]
    /\ scoreDone = {}
    /\ scoreEve = 0
    /\ scoreOsrs = 0

IdleFeatures ==
    /\ series = <<>>
    /\ featDone = FALSE
    /\ featEve = NoFeatures
    /\ featOsrs = NoFeatures

IdleAmount ==
    /\ amountInput = <<>>
    /\ amountDone = FALSE
    /\ amountEve = NotANumber
    /\ amountOsrs = NotANumber
    /\ amountRejected = FALSE

IdleFilter ==
    /\ filterItem = [name |-> "", price |-> <<>>, volume |-> <<>>,
                     limit |-> <<>>, members |-> "undefined"]
    /\ filterBudget = 1
    /\ filterMembers = FALSE
    /\ filterVerdict = "pending"

IdleNormalize ==
    /\ rawHistory = <<>>
    /\ rawDaily = {}
    /\ normDone = {}
    /\ normEve = <<>>
    /\ normOsrs = <<>>

IdleRun ==
    /\ entry = "none"
    /\ phase = "done"
    /\ budgetInput = <<>>
    /\ countInput = 0
    /\ withMembers = FALSE
    /\ catalogSize = 0
    /\ runBudget = 0
    /\ itemsToAnalyze = <<>>
    /\ loopIndex = 0
    /\ itemsChecked = 0
    /\ successfulAnalyses = 0
    /\ runResults = <<>>
    /\ collected = <<>>
    /\ fetched = <<>>
    /\ replies = <<>>
    /\ delays = <<>>
    /\ recommendations = <<>>

-----------------------------------------------------------------------------
(* Specification SpecScore: the two scoring functions applied to inputs     *)
(* drawn from a grid that holds every bucket boundary of both variants,    *)
(* zero, and very large and very negative values.                          *)

\* Percentages at and next to the thresholds of both formulas.
FeatureGrid ==
    {0, 1, -1, 5 * Unit, 5 * Unit + 1, 8 * Unit, 8 * Unit + 1, 10 * Unit - 1,
     10 * Unit, 10 * Unit + 1, 15 * Unit, 15 * Unit + 1, 20 * Unit,
     30 * Unit + 1,
     40 * Unit, -10 * Unit, -10 * Unit + 1, Extreme * Unit, -Extreme * Unit}

PriceChangeInputs == FeatureGrid

VolatilityInputs ==
    {0, 8 * Unit, 8 * Unit + 1, 10 * Unit - 1, 10 * Unit, 15 * Unit + 1, 20 * Unit,
     Extreme * Unit, -Extreme * Unit}

MomentumInputs ==
    {0, 1, -1, 5 * Unit, 5 * Unit + 1, 10 * Unit, 10 * Unit + 1, Extreme * Unit,
     -Extreme * Unit}

\* <<currentPrice, budget>>: every affordability tier, and zero and negative
\* values of either.
MoneyInputs ==
    {<<1, 100>>, <<1, 99>>, <<1, 50>>, <<1, 49>>, <<1, 20>>, <<1, 10>>,
     <<1, 9>>, <<1, 5>>, <<1, 4>>, <<0, 100>>, <<0, 0>>, <<0, -1>>,
     <<-1, 100>>, <<-1, -100>>, <<Extreme, 1>>, <<1, Extreme>>}

InitScore ==
    /\ scoreArgs \in [priceChange : PriceChangeInputs,
                      volatility : VolatilityInputs,
                      momentum : MomentumInputs,
                      money : MoneyInputs]
    /\ scoreDone = {}
    /\ scoreEve = 0
    /\ scoreOsrs = 0
    /\ IdleFeatures
    /\ IdleAmount
    /\ IdleFilter
    /\ IdleRun
    /\ IdleNormalize

ScoreEve ==
    /\ "eve" \notin scoreDone
    /\ scoreEve' = EveCalculateInvestmentScore(scoreArgs.priceChange,
                       scoreArgs.volatility, scoreArgs.momentum,
                       scoreArgs.money[1], scoreArgs.money[2])
    /\ scoreDone' = scoreDone \cup {"eve"}
    /\ UNCHANGED <<scoreArgs, scoreOsrs, notScoreVars>>

ScoreOsrs ==
    /\ "osrs" \notin scoreDone
    /\ scoreOsrs' = OsrsCalculateInvestmentScore(scoreArgs.priceChange,
                        scoreArgs.volatility, scoreArgs.momentum,
                        scoreArgs.money[1], scoreArgs.money[2])
    /\ scoreDone' = scoreDone \cup {"osrs"}
    /\ UNCHANGED <<scoreArgs, scoreEve, notScoreVars>>

NextScore == ScoreEve \/ ScoreOsrs

SpecScore == InitScore /\ [][NextScore]_vars

\* C1: whatever the price change, volatility, momentum, current price and
\* budget (very large, very negative and zero values included), the score
\* returned by the EVE variant and by the OSRS variant lies in [0, 100].
C1_ScoreInRange ==
    /\ "eve" \in scoreDone => (0 <= scoreEve /\ scoreEve <= 100 * Q)
    /\ "osrs" \in scoreDone => (0 <= scoreOsrs /\ scoreOsrs <= 100 * Q)

\* Both variants applied to inputs whose unclamped EVE score is 150 and whose
\* result is the upper end of the range.
C1_Witness ==
    /\ scoreDone = {"eve", "osrs"}
    /\ scoreArgs.priceChange = Extreme * Unit
    /\ scoreArgs.volatility = Extreme * Unit
    /\ scoreArgs.momentum = Extreme * Unit
    /\ scoreArgs.money = <<1, 100>>
    /\ scoreEve = 100 * Q
    /\ scoreOsrs = 100 * Q

-----------------------------------------------------------------------------
(* Specification SpecFeatures: the feature functions of both markets        *)
(* applied to a series: every short series, and long series that are       *)
(* constant, rising, falling or stepping at the momentum window.           *)

\* Longest series of which every price combination is enumerated.
MaxShort == 3

\* Number of daily points the price APIs return.
HistoryDays == 180

ShortPrices == {0, 100, 140}

LongPrices == {100, 150}

LongLengths == {2, 59, 60, 61, 90, HistoryDays}

Const(n, p) == [i \in 1..n |-> p]

\* n >= 2 points from a to b in equal steps, rounded down to whole prices.
Ramp(n, a, b) == [i \in 1..n |-> IF i = n THEN b ELSE a + ((b - a) * (i - 1)) \div (n - 1)]

\* a, then b over the last 30 points.
Step(n, a, b) == [i \in 1..n |-> IF i > n - 30 THEN b ELSE a]

ShortSeries == UNION {[1..n -> ShortPrices] : n \in 0..MaxShort}

SeriesInputs ==
    ShortSeries
    \cup {Const(n, p) : n \in LongLengths, p \in LongPrices}
    \cup {Ramp(n, a, b) : n \in LongLengths, a \in {100, 150}, b \in {100, 150}}
    \cup {Step(n, a, b) : n \in LongLengths, a \in LongPrices, b \in LongPrices}

\* The series as the EVE history array and as the OSRS price-point array.
EveHistoryOf(s) == [i \in 1..Len(s) |-> [date |-> i, average |-> s[i], volume |-> 0]]

OsrsPointsOf(s) == [i \in 1..Len(s) |-> [timestamp |-> i, price |-> s[i]]]

InitFeatures ==
    /\ series \in SeriesInputs
    /\ featDone = FALSE
    /\ featEve = NoFeatures
    /\ featOsrs = NoFeatures
    /\ IdleScore
    /\ IdleAmount
    /\ IdleFilter
    /\ IdleRun
    /\ IdleNormalize

ExtractFeatures ==
    /\ ~featDone
    /\ featDone' = TRUE
    /\ featEve' = [priceChange |-> EveCalculatePriceChange(EveHistoryOf(series)),
                   volatility  |-> EveCalculateVolatility(EveHistoryOf(series)),
                   momentum    |-> EveCalculateMomentum(EveHistoryOf(series))]
    /\ featOsrs' = [priceChange |-> OsrsCalculatePriceChange(OsrsPointsOf(series)),
                    volatility  |-> OsrsCalculateVolatility(OsrsPointsOf(series)),
                    momentum    |-> OsrsCalculateMomentum(OsrsPointsOf(series))]
    /\ UNCHANGED <<series, notFeatVars>>

NextFeatures == ExtractFeatures

SpecFeatures == InitFeatures /\ [][NextFeatures]_vars

\* C6: on a series of fewer than 2 points (none or one), calculatePriceChange,
\* calculateVolatility and calculateMomentum of both markets return exactly 0.
C6_ShortSeriesZero ==
    (featDone /\ Len(series) < 2) =>
        /\ featEve = NoFeatures
        /\ featOsrs = NoFeatures

\* The functions applied to a one-point series.
C6_Witness == featDone /\ series = <<140>> /\ featEve = NoFeatures

\* C7: on a series of at least 60 points that all carry the same positive
\* price, calculateVolatility returns 0 and calculateMomentum returns 0.
C7_ConstantSeriesFlat ==
    (/\ featDone
     /\ Len(series) >= 60
     /\ \A i \in 1..Len(series) : series[i] = series[1] /\ series[i] > 0) =>
        /\ featEve.volatility = 0 /\ featEve.momentum = 0
        /\ featOsrs.volatility = 0 /\ featOsrs.momentum = 0

\* The functions applied to 180 points at price 100.
C7_Witness ==
    /\ featDone
    /\ series = Const(HistoryDays, 100)
    /\ featEve.volatility = 0
    /\ featOsrs.momentum = 0

\* C8: on a series of at least 2 points with a non-zero first price the price
\* change is (lastPrice - firstPrice) / firstPrice * 100, to the nearest grid
\* value, and depends on the first and the last point only; 180 points rising
\* from 100 to 150 give 50.00 and the series 100, 140 gives 40.00.
C8_PriceChangeFirstLast ==
    (featDone /\ Len(series) >= 2 /\ series[1] # 0) =>
        LET first == series[1]
            last  == series[Len(series)]
            pc    == featEve.priceChange
        IN  /\ featOsrs.priceChange = pc
            /\ IsFinite(pc)
            /\ 2 * Abs(pc * first - (last - first) * 100 * Unit) <= Abs(first)
            /\ pc = EveCalculatePriceChange(EveHistoryOf(<<first, last>>))
            /\ (first = 100 /\ last = 150) => ToFixed2(pc) = 5000
            /\ (first = 100 /\ last = 140) => ToFixed2(pc) = 4000

\* The 180-point series rising from 100 to 150, with its price change of 50.
C8_Witness ==
    /\ featDone
    /\ series = Ramp(HistoryDays, 100, 150)
    /\ series[HistoryDays \div 2] > 100 /\ series[HistoryDays \div 2] < 150
    /\ featEve.priceChange = 50 * Unit
    /\ featOsrs.priceChange = 50 * Unit

-----------------------------------------------------------------------------
(* Specification SpecAmount: the budget parsers applied to every string of  *)
(* at most MaxAmountLen characters of an alphabet, and to named inputs.    *)

MaxAmountLen == 3

AmountAlphabet == {"0", "5", ".", ",", " ", "-", "k", "M", "b", "a"}

NamedAmounts ==
    {<<"2", ".", "5", "m">>, <<"5", "0", "0", "k">>, <<"6", "b">>,
     <<"a", "b", "c">>, <<" ", "2", ".", "5", "M", " ">>,
     <<"1", ",", "0", "0", "0", "K">>, <<"5", "k", " ", ",">>}

AmountInputs ==
    NamedAmounts \cup UNION {[1..n -> AmountAlphabet] : n \in 0..MaxAmountLen}

InitAmount ==
    /\ amountInput \in AmountInputs
    /\ amountDone = FALSE
    /\ amountEve = NotANumber
    /\ amountOsrs = NotANumber
    /\ amountRejected = FALSE
    /\ IdleScore
    /\ IdleFeatures
    /\ IdleFilter
    /\ IdleRun
    /\ IdleNormalize

ParseBudget ==
    /\ ~amountDone
    /\ amountDone' = TRUE
    /\ amountEve' = ParseISKAmount(amountInput)
    /\ amountOsrs' = ParseGoldAmount(amountInput)
    /\ amountRejected' = InvalidBudget(ParseISKAmount(amountInput))
    /\ UNCHANGED <<amountInput, notAmountVars>>

NextAmount == ParseBudget

SpecAmount == InitAmount /\ [][NextAmount]_vars

\* No character of the string is a suffix letter, in either case.
NoSuffixLetter(str) ==
    \A i \in 1..Len(str) : str[i] \notin {"k", "K", "m", "M", "b", "B"}

\* C10: budget parsing lower-cases and trims the input, strips commas, and
\* multiplies the numeric part by 1e3 for suffix k, 1e6 for m and 1e9 for b:
\* "2.5m" gives 2500000, "500k" gives 500000, "6b" gives 6000000000, and "abc"
\* gives no number and is rejected by the caller's NaN / non-positive check.
C10_BudgetParsing ==
    amountDone =>
        /\ amountOsrs = amountEve
        /\ amountInput = <<"2", ".", "5", "m">> => amountEve = Decimal(2500000, 0)
        /\ amountInput = <<"5", "0", "0", "k">> => amountEve = Decimal(500000, 0)
        /\ amountInput = <<"6", "b">> => amountEve = Decimal(6, 9)
        /\ amountInput = <<"a", "b", "c">> => (amountEve.nan /\ amountRejected)
        /\ amountRejected <=> (amountEve.nan \/ amountEve.mant <= 0)
        \* a suffix, in either case, multiplies the numeric part
        /\ (NoSuffixLetter(amountInput) /\ ~amountEve.nan) =>
              /\ ParseISKAmount(amountInput \o <<"k">>) = TimesPow10(amountEve, 3)
              /\ ParseISKAmount(amountInput \o <<"K">>) = TimesPow10(amountEve, 3)
              /\ ParseISKAmount(amountInput \o <<"m">>) = TimesPow10(amountEve, 6)
              /\ ParseISKAmount(amountInput \o <<"M">>) = TimesPow10(amountEve, 6)
              /\ ParseISKAmount(amountInput \o <<"b">>) = TimesPow10(amountEve, 9)
              /\ ParseISKAmount(amountInput \o <<"B">>) = TimesPow10(amountEve, 9)
        \* surrounding blanks and commas do not change the amount
        /\ ParseISKAmount(<<" ">> \o amountInput \o <<" ">>) = amountEve
        /\ (\A i \in 1..Len(amountInput) : ~IsSpace(amountInput[i])) =>
              ParseISKAmount(StripCommas(amountInput)) = amountEve

\* " 2.5M " parsed: upper case, blanks and a fraction, giving 2500000.
C10_Witness ==
    /\ amountDone
    /\ amountInput = <<" ", "2", ".", "5", "M", " ">>
    /\ amountEve = [nan |-> FALSE, mant |-> 25, exp |-> 5]
    /\ ~amountRejected

-----------------------------------------------------------------------------
(* Specification SpecFilter: the OSRS catalog filter applied to one entry,  *)
(* for every combination of present and missing fields.                    *)

FilterItems ==
    [name    : {"", "Rune scimitar"},
     price   : {<<>>, <<0>>, <<100>>, <<1000>>},
     volume  : {<<>>, <<0>>, <<50>>, <<1000>>, <<10000>>},
     limit   : {<<>>, <<0>>, <<10>>, <<100>>},
     members : {"true", "false", "undefined"}]

FilterBudgets == {1, 1000, 100000}

InitFilter ==
    /\ filterItem \in FilterItems
    /\ filterBudget \in FilterBudgets
    /\ filterMembers \in BOOLEAN
    /\ filterVerdict = "pending"
    /\ IdleScore
    /\ IdleFeatures
    /\ IdleAmount
    /\ IdleRun
    /\ IdleNormalize

ApplyFilter ==
    /\ filterVerdict = "pending"
    /\ filterVerdict' = OsrsFilter(filterItem, filterBudget, filterMembers)
    /\ UNCHANGED <<filterItem, filterBudget, filterMembers, notFilterVars>>

NextFilter == ApplyFilter

SpecFilter == InitFilter /\ [][NextFilter]_vars

\* The rules of the filter, read off the entry.
HasRequiredFields ==
    filterItem.name # "" /\ filterItem.price # <<>> /\ filterItem.volume # <<>>

PassesMembership == filterMembers \/ filterItem.members = "false"

\* floor(budget / price) is at most n: (n + 1) * price > budget.
UnitsAtMost(n) == (n + 1) * filterItem.price[1] > filterBudget

\* floor(budget / price) <= volume / 10
PassesLiquidity ==
    \E n \in 0..filterBudget : UnitsAtMost(n) /\ 10 * n <= filterItem.volume[1]

-----------------------------------------------------------------------------
(* Specification Spec: one run of runEVE, runEVEAutomated, runOSRS or       *)
(* runOSRSAutomated over a small catalog.  An async function is cut at its *)
(* awaits inside the loop: the series fetch and the delay.  The prompts    *)
(* and the catalog fetch before the loop are inputs of the first step.     *)

\* Largest catalog.
MaxCatalog == 4

\* results.slice(0, 3) of the interactive runs.
InteractiveTop == 3

\* maxItems = null, the default of runEVEAutomated: no count is asked for.
NoCount == NaN + 1

\* if (maxItems): null, 0 and NaN are falsy.
Truthy(count) == count \notin {NoCount, 0, NaN}

\* results.slice(0, 10) of the automated runs.
AutomatedTop == 10

ItemNames == <<"Tritanium", "Pyerite", "Mexallon", "Isogen", "Nocxium",
               "Zydrine", "Megacyte", "Morphite">>

\* eve.js TRADEABLE_ITEMS, [id, name] each.
TRADEABLE_ITEMS(n) == [k \in 1..n |-> [id |-> k, name |-> ItemNames[k]]]

Day(date, average, volume) == [date |-> date, average |-> average, volume |-> volume]

\* The histories the ESI endpoint can answer for an item: average in 1/100
\* ISK.  Item 2 is answered out of date order, item 3 can cost more than
\* the smaller budget, items 4 and up can have an empty history.
EveMarket(id) ==
    CASE id = 1 -> {<<Day(1, 10000, 1000), Day(2, 14000, 1000)>>}
      [] id = 2 -> {<<Day(2, 14050, 200), Day(1, 10000, 200)>>}
      [] id = 3 -> {<<Day(1, 100000, 50)>>, <<Day(1, 150000, 50)>>}
      [] id = 4 -> {<<>>, <<Day(1, 5000, 100000), Day(2, 4800, 100000)>>}
      [] OTHER  -> {<<>>, <<Day(1, 10000, 5000), Day(2, 14000, 5000)>>}

\* What fetchMarketHistory can return: null on a failure, or the history.
EveResponses(id) == {<<>>} \cup {<<h>> : h \in EveMarket(id)}

\* The item database of the OSRS runs, id -> entry.
OsrsEntry(id) ==
    CASE id = 1 -> [name |-> "Iron ore", price |-> <<100>>, volume |-> <<1000>>,
                    limit |-> <<>>, members |-> "false"]
      [] id = 2 -> [name |-> "Rune scimitar", price |-> <<140>>, volume |-> <<10000>>,
                    limit |-> <<1000>>, members |-> "true"]
      [] id = 3 -> [name |-> "Dragon bones", price |-> <<1000>>, volume |-> <<50>>,
                    limit |-> <<>>, members |-> "false"]
      [] id = 4 -> [name |-> "Coal", price |-> <<100>>, volume |-> <<100000>>,
                    limit |-> <<5>>, members |-> "false"]
      [] OTHER  -> [name |-> "", price |-> <<100>>, volume |-> <<1000>>,
                    limit |-> <<>>, members |-> "false"]

itemsData(n) == [id \in 1..n |-> OsrsEntry(id)]

\* The price data the OSRS endpoint can answer for an item: daily is
\* undefined or a set of <<timestamp, price>>.  The last price of a
\* series need not be the price of the item database: items 2 and 3 can
\* have become cheaper, item 3 dearer.
OsrsMarket(id) ==
    CASE id = 1 -> {[daily |-> <<{<<1, 100>>, <<2, 140>>}>>]}
      [] id = 2 -> {[daily |-> <<>>], [daily |-> <<{<<1, 150>>, <<2, 120>>, <<3, 150>>}>>],
                    [daily |-> <<{<<1, 150>>, <<2, 50>>}>>]}
      [] id = 3 -> {[daily |-> <<{}>>], [daily |-> <<{<<1, 1000>>}>>],
                    [daily |-> <<{<<1, 1000>>, <<2, 100>>}>>],
                    [daily |-> <<{<<1, 1000>>, <<2, 2000>>}>>]}
      [] OTHER  -> {[daily |-> <<{<<1, 100>>, <<2, 100>>}>>]}

\* What fetchPriceHistory can return: null on a failure, or the price data.
OsrsResponses(id) == {<<>>} \cup {<<d>> : d \in OsrsMarket(id)}

BudgetInputs == {<<"1", "k">>, <<"1", "0", "0", "k">>, <<"a", "b", "c">>,
                 <<"0">>, <<"-", "5">>}

\* A draw with replacement: an item may come up twice.
ShufflesWithRepeats(items) ==
    LET n == Len(items)
    IN  {[k \in 1..n |-> items[f[k]]] : f \in [1..n -> 1..n]}

\* [...items].sort(() => Math.random() - 0.5): any order of the items.
Shuffles(items) ==
    LET n == Len(items)
    IN  {[k \in 1..n |-> items[f[k]]] :
            f \in {g \in [1..n -> 1..n] : \A a, b \in 1..n : a # b => g[a] # g[b]}}

\* Object.entries(itemsData).filter(...).map(...): the entries the filter
\* keeps, in key order, as [id, name].
RECURSIVE FilterCatalog(_, _, _, _)
FilterCatalog(data, n, b, members) ==
    IF n = 0 THEN <<>>
    ELSE LET rest == FilterCatalog(data, n - 1, b, members)
         IN  IF OsrsFilter(data[n], b, members) = "keep"
             THEN Append(rest, [id |-> n, name |-> data[n].name])
             ELSE rest

Init ==
    /\ entry \in {"runEVE", "runEVEAutomated", "runOSRS", "runOSRSAutomated"}
    /\ phase = "start"
    /\ budgetInput \in BudgetInputs
    /\ countInput \in CASE entry = "runEVE" -> {NaN, 0, -1, 2, MaxCatalog + 1}
                        [] entry = "runEVEAutomated" -> {NoCount, NaN, 0, -1, 2}
                        [] entry = "runOSRS" -> {NaN, 0, 2, MaxCatalog + 1}
                        [] OTHER -> {NoCount}
    /\ withMembers \in IF entry \in {"runOSRS", "runOSRSAutomated"} THEN BOOLEAN ELSE {FALSE}
    /\ catalogSize \in 0..MaxCatalog
    /\ runBudget = 0
    /\ itemsToAnalyze = <<>>
    /\ loopIndex = 0
    /\ itemsChecked = 0
    /\ successfulAnalyses = 0
    /\ runResults = <<>>
    /\ collected = <<>>
    /\ fetched = <<>>
    /\ replies = <<>>
    /\ delays = <<>>
    /\ recommendations = <<>>
    /\ IdleScore
    /\ IdleFeatures
    /\ IdleAmount
    /\ IdleFilter
    /\ IdleNormalize

\* The inputs of a run, which no step changes.
runInputs == <<entry, budgetInput, countInput, withMembers, catalogSize>>

\* A loop head that forgets to count the item it checks.
LoopHeadNoCount(items, idx, res, more, top) ==
    IF idx < Len(items) /\ more
    THEN /\ loopIndex' = idx
         /\ itemsChecked' = itemsChecked
         /\ fetched' = Append(fetched, items[idx + 1].id)
         /\ phase' = "fetching"
         /\ runResults' = res
         /\ UNCHANGED <<collected, replies, delays, recommendations>>
    ELSE /\ loopIndex' = idx
         /\ phase' = "done"
         /\ collected' = res
         /\ runResults' = SortByScore(res)
         /\ recommendations' = SliceTo(SortByScore(res), top)
         /\ UNCHANGED <<itemsChecked, fetched, replies, delays>>

\* The head of the for loop at index idx over items, res collected so far:
\* the next fetch is issued while the loop condition holds (more is its
\* second conjunct); otherwise the results are ranked and the first top
\* are returned or displayed.
LoopHead(items, idx, res, more, top) ==
    IF idx < Len(items) /\ more
    THEN /\ loopIndex' = idx
         /\ itemsChecked' = itemsChecked + 1
         /\ fetched' = Append(fetched, items[idx + 1].id)
         /\ phase' = "fetching"
         /\ runResults' = res
         /\ UNCHANGED <<collected, replies, delays, recommendations>>
    ELSE /\ loopIndex' = idx
         /\ phase' = "done"
         /\ collected' = res
         /\ runResults' = SortByScore(res)
         /\ recommendations' = SliceTo(SortByScore(res), top)
         /\ UNCHANGED <<itemsChecked, fetched, replies, delays>>

\* The argument of every delay of the loops.
DelayMs == 1000

\* A delay that is not started: the loop goes on at once.
DelaySkipped(ms) == phase' = "delaying" /\ UNCHANGED delays

\* await delay(ms): the timer is started; the run resumes when it fires.
Delay(ms) == phase' = "delaying" /\ delays' = Append(delays, ms)

\* An error outcome before any fetch: a thrown error or process.exit(1).
Fail ==
    /\ phase' = "error"
    /\ UNCHANGED <<runBudget, itemsToAnalyze, loopIndex, itemsChecked,
                   successfulAnalyses, runResults, collected, fetched, replies,
                   delays, recommendations>>

\* Math.min(maxItems, TRADEABLE_ITEMS.length), NaN for an unparsable answer.
EveItemCount == IF countInput = NaN THEN NaN ELSE Min(countInput, catalogSize)

\* ---- runEVE
RunEVE ==
    /\ entry = "runEVE" /\ phase = "start"
    /\ LET b == ParseISKAmount(budgetInput)
       IN  IF InvalidBudget(b) \/ EveItemCount = NaN \/ EveItemCount <= 0
           THEN Fail
           ELSE \E shuffledItems \in Shuffles(TRADEABLE_ITEMS(catalogSize)) :
                   /\ runBudget' = DecimalToInt(b)
                   /\ itemsToAnalyze' = shuffledItems
                   /\ LoopHead(shuffledItems, 0, <<>>, 0 < EveItemCount, InteractiveTop)
                   /\ UNCHANGED successfulAnalyses
    /\ UNCHANGED <<runInputs, notRunVars>>

RunEVEFetched ==
    /\ entry = "runEVE" /\ phase = "fetching"
    /\ LET item == itemsToAnalyze[loopIndex + 1]
       IN  \E history \in EveResponses(item.id) :
               /\ runResults' = EveCollect(runResults, history, item, runBudget)
               /\ replies' = Append(replies, history)
    /\ Delay(DelayMs)
    /\ UNCHANGED <<runInputs, runBudget, itemsToAnalyze, loopIndex, itemsChecked,
                   successfulAnalyses, collected, fetched, recommendations, notRunVars>>

\* A loop that ignores the target and goes through the whole catalog.
RunEVEDelayedNoTarget ==
    /\ entry = "runEVE" /\ phase = "delaying"
    /\ LoopHead(itemsToAnalyze, loopIndex + 1, runResults, TRUE, InteractiveTop)
    /\ UNCHANGED <<runInputs, runBudget, itemsToAnalyze, successfulAnalyses, notRunVars>>

RunEVEDelayed ==
    /\ entry = "runEVE" /\ phase = "delaying"
    /\ LoopHead(itemsToAnalyze, loopIndex + 1, runResults,
                Len(runResults) < EveItemCount, InteractiveTop)
    /\ UNCHANGED <<runInputs, runBudget, itemsToAnalyze, successfulAnalyses, notRunVars>>

\* ---- runEVEAutomated
RunEVEAutomated ==
    /\ entry = "runEVEAutomated" /\ phase = "start"
    /\ LET b == ParseISKAmount(budgetInput)
       IN  IF InvalidBudget(b)
           THEN Fail
           ELSE \E shuffledItems \in Shuffles(TRADEABLE_ITEMS(catalogSize)) :
                   LET cut == IF Truthy(countInput) THEN SliceTo(shuffledItems, countInput)
                              ELSE shuffledItems
                   IN  /\ runBudget' = DecimalToInt(b)
                       /\ itemsToAnalyze' = cut
                       /\ LoopHead(cut, 0, <<>>, TRUE, AutomatedTop)
                       /\ UNCHANGED successfulAnalyses
    /\ UNCHANGED <<runInputs, notRunVars>>

RunEVEAutomatedFetched ==
    /\ entry = "runEVEAutomated" /\ phase = "fetching"
    /\ LET item == itemsToAnalyze[loopIndex + 1]
       IN  \E history \in EveResponses(item.id) :
               /\ runResults' = EveCollect(runResults, history, item, runBudget)
               /\ replies' = Append(replies, history)
               /\ successfulAnalyses' = successfulAnalyses + (Len(runResults') - Len(runResults))
    /\ Delay(DelayMs)
    /\ UNCHANGED <<runInputs, runBudget, itemsToAnalyze, loopIndex, itemsChecked,
                   collected, fetched, recommendations, notRunVars>>

\* A loop that issues the next fetch without waiting for the reply.
RunEVEAutomatedPipelined ==
    /\ entry = "runEVEAutomated" /\ phase \in {"fetching", "delaying"}
    /\ LoopHead(itemsToAnalyze, loopIndex + 1, runResults, TRUE, AutomatedTop)
    /\ UNCHANGED <<runInputs, runBudget, itemsToAnalyze, successfulAnalyses, notRunVars>>

RunEVEAutomatedDelayed ==
    /\ entry = "runEVEAutomated" /\ phase = "delaying"
    /\ LoopHead(itemsToAnalyze, loopIndex + 1, runResults, TRUE, AutomatedTop)
    /\ UNCHANGED <<runInputs, runBudget, itemsToAnalyze, successfulAnalyses, notRunVars>>

\* ---- runOSRS
\* Math.min(parseInt(itemCountInput), allItems.length)
OsrsItemCount(allItems) == IF countInput = NaN THEN NaN ELSE Min(countInput, Len(allItems))

RunOSRS ==
    /\ entry = "runOSRS" /\ phase = "start"
    /\ LET b == ParseGoldAmount(budgetInput)
       IN  IF InvalidBudget(b)
           THEN Fail
           ELSE LET INVESTMENT_BUDGET == DecimalToInt(b)
                    allItems  == FilterCatalog(itemsData(catalogSize), catalogSize,
                                               INVESTMENT_BUDGET, withMembers)
                    itemCount == OsrsItemCount(allItems)
                IN  IF itemCount = NaN \/ itemCount <= 0
                    THEN Fail
                    ELSE \E shuffledItems \in Shuffles(allItems) :
                            /\ runBudget' = INVESTMENT_BUDGET
                            /\ itemsToAnalyze' = SliceTo(shuffledItems, itemCount)
                            /\ LoopHead(SliceTo(shuffledItems, itemCount), 0, <<>>,
                                        TRUE, InteractiveTop)
                            /\ UNCHANGED successfulAnalyses
    /\ UNCHANGED <<runInputs, notRunVars>>

RunOSRSFetched ==
    /\ entry = "runOSRS" /\ phase = "fetching"
    /\ LET item == itemsToAnalyze[loopIndex + 1]
       IN  \E priceData \in OsrsResponses(item.id) :
               /\ runResults' = OsrsCollect(runResults, priceData, item, runBudget)
               /\ replies' = Append(replies, priceData)
    /\ Delay(DelayMs)
    /\ UNCHANGED <<runInputs, runBudget, itemsToAnalyze, loopIndex, itemsChecked,
                   successfulAnalyses, collected, fetched, recommendations, notRunVars>>

RunOSRSDelayed ==
    /\ entry = "runOSRS" /\ phase = "delaying"
    /\ LoopHead(itemsToAnalyze, loopIndex + 1, runResults, TRUE, InteractiveTop)
    /\ UNCHANGED <<runInputs, runBudget, itemsToAnalyze, successfulAnalyses, notRunVars>>

\* ---- runOSRSAutomated
RunOSRSAutomated ==
    /\ entry = "runOSRSAutomated" /\ phase = "start"
    /\ LET b == ParseGoldAmount(budgetInput)
       IN  IF InvalidBudget(b)
           THEN Fail
           ELSE LET allItems == FilterCatalog(itemsData(catalogSize), catalogSize,
                                              DecimalToInt(b), withMembers)
                IN  \E shuffledItems \in Shuffles(allItems) :
                        /\ runBudget' = DecimalToInt(b)
                        /\ itemsToAnalyze' = shuffledItems
                        /\ LoopHead(shuffledItems, 0, <<>>, TRUE, AutomatedTop)
                        /\ UNCHANGED successfulAnalyses
    /\ UNCHANGED <<runInputs, notRunVars>>

\* A loop body that counts every reply that is not null as an analysis.
RunOSRSAutomatedFetchedCountsReplies ==
    /\ entry = "runOSRSAutomated" /\ phase = "fetching"
    /\ LET item == itemsToAnalyze[loopIndex + 1]
       IN  \E priceData \in OsrsResponses(item.id) :
               /\ runResults' = OsrsCollect(runResults, priceData, item, runBudget)
               /\ replies' = Append(replies, priceData)
               /\ successfulAnalyses' = successfulAnalyses + (IF priceData # <<>> THEN 1 ELSE 0)
    /\ Delay(DelayMs)
    /\ UNCHANGED <<runInputs, runBudget, itemsToAnalyze, loopIndex, itemsChecked,
                   collected, fetched, recommendations, notRunVars>>

RunOSRSAutomatedFetched ==
    /\ entry = "runOSRSAutomated" /\ phase = "fetching"
    /\ LET item == itemsToAnalyze[loopIndex + 1]
       IN  \E priceData \in OsrsResponses(item.id) :
               /\ runResults' = OsrsCollect(runResults, priceData, item, runBudget)
               /\ replies' = Append(replies, priceData)
               /\ successfulAnalyses' = successfulAnalyses + (Len(runResults') - Len(runResults))
    /\ Delay(DelayMs)
    /\ UNCHANGED <<runInputs, runBudget, itemsToAnalyze, loopIndex, itemsChecked,
                   collected, fetched, recommendations, notRunVars>>

\* A loop that fetches the same item again when its fetch failed.
RunOSRSAutomatedDelayedRetry ==
    /\ entry = "runOSRSAutomated" /\ phase = "delaying"
    /\ LoopHead(itemsToAnalyze,
                IF replies[Len(replies)] = <<>> THEN loopIndex ELSE loopIndex + 1,
                runResults, TRUE, AutomatedTop)
    /\ UNCHANGED <<runInputs, runBudget, itemsToAnalyze, successfulAnalyses, notRunVars>>

RunOSRSAutomatedDelayed ==
    /\ entry = "runOSRSAutomated" /\ phase = "delaying"
    /\ LoopHead(itemsToAnalyze, loopIndex + 1, runResults, TRUE, AutomatedTop)
    /\ UNCHANGED <<runInputs, runBudget, itemsToAnalyze, successfulAnalyses, notRunVars>>

Next ==
    \/ RunEVE \/ RunEVEFetched \/ RunEVEDelayed
    \/ RunEVEAutomated \/ RunEVEAutomatedFetched \/ RunEVEAutomatedDelayed
    \/ RunOSRS \/ RunOSRSFetched \/ RunOSRSDelayed
    \/ RunOSRSAutomated \/ RunOSRSAutomatedFetched \/ RunOSRSAutomatedDelayed

Spec == Init /\ [][Next]_vars

\* The runs of each market.
EveRun == entry \in {"runEVE", "runEVEAutomated"}

OsrsRun == entry \in {"runOSRS", "runOSRSAutomated"}

\* The reply to the fetch of the series of item id (an item is fetched at
\* most once in a run).
ReplyFor(id) == replies[CHOOSE k \in 1..Len(replies) : fetched[k] = id]

Replied(id) == \E k \in 1..Len(replies) : fetched[k] = id

\* The chronologically last point of a non-empty EVE history.
LastDay(history) ==
    CHOOSE d \in {history[k] : k \in 1..Len(history)} :
        \A k \in 1..Len(history) : history[k].date <= d.date

\* The chronologically last <<timestamp, price>> of a non-empty OSRS series.
LastPoint(daily) == CHOOSE e \in daily : \A o \in daily : o[1] <= e[1]

\* units = floor(money / price), for a positive price.
IsFloorRatio(units, money, price) ==
    /\ units >= 0
    /\ units * price <= money
    /\ (units + 1) * price > money

\* C9: every analysis result has unitsCanBuy = floor(budget / currentPrice),
\* a non-negative integer, currentPrice being the price of the
\* chronologically last point of the series that the fetch returned.
C9_UnitsCanBuy ==
    \A x \in 1..Len(runResults) :
        LET r == runResults[x]
        IN  /\ Replied(r.id)
            /\ ReplyFor(r.id) # <<>>
            /\ IF EveRun
               THEN /\ ReplyFor(r.id)[1] # <<>>
                    /\ IsFloorRatio(r.unitsCanBuy, runBudget * 100,
                                    LastDay(ReplyFor(r.id)[1]).average)
               ELSE /\ ReplyFor(r.id)[1].daily \notin {<<>>, <<{}>>}
                    /\ r.currentPrice = LastPoint(ReplyFor(r.id)[1].daily[1])[2]
                    /\ IsFloorRatio(r.unitsCanBuy, runBudget, r.currentPrice)

\* A result of budget 1000 and last price 140: 7 units, from a history
\* answered in date order and from one answered out of order.
C9_Witness ==
    /\ EveRun
    /\ runBudget = 1000
    /\ \E x, y \in 1..Len(runResults) :
          /\ runResults[x].id = 1 /\ runResults[x].currentPrice = 140
          /\ runResults[x].unitsCanBuy = 7
          /\ runResults[y].id = 2 /\ runResults[y].unitsCanBuy = 7

\* C2: no entry whose affordable units floor(budget / price) exceed 10% of
\* its daily volume is accepted: every OSRS item that is selected or
\* fetched passes the rule on its catalog price and volume, and every EVE
\* result passes it on the last day of the history returned.
C2_NoIlliquidAccepted ==
    /\ OsrsRun =>
          \A id \in {fetched[k] : k \in 1..Len(fetched)}
                    \cup {itemsToAnalyze[k].id : k \in 1..Len(itemsToAnalyze)} :
              /\ IsDefined(OsrsEntry(id).price) /\ IsDefined(OsrsEntry(id).volume)
              /\ ValueOf(OsrsEntry(id).price) > 0
              /\ ~(FloorDiv(runBudget, ValueOf(OsrsEntry(id).price)) * 10
                     > ValueOf(OsrsEntry(id).volume))
    /\ EveRun =>
          \A x \in 1..Len(runResults) :
              /\ Replied(runResults[x].id)
              /\ ReplyFor(runResults[x].id) \notin {<<>>, <<<<>>>>}
              /\ LET last == LastDay(ReplyFor(runResults[x].id)[1])
                 IN  ~(FloorDiv(runBudget * 100, last.average) * 10 > last.volume)

\* The scenario of price 1000, daily volume 50 and budget 100000 in an EVE
\* run: the history was returned, another item was collected.
C2_Witness ==
    /\ EveRun
    /\ phase = "done"
    /\ runBudget = 100000
    /\ Replied(3) /\ ReplyFor(3) = <<<<Day(1, 100000, 50)>>>>
    /\ runResults # <<>>

\* The position of a result in a sequence of results of distinct items.
PositionIn(s, r) == CHOOSE k \in 1..Len(s) : s[k].id = r.id

\* C4: after the ranking the results are the collected results in
\* non-increasing order of investmentScore, and results of equal score are
\* in the order in which the loop collected them.
C4_RankedStable ==
    phase = "done" =>
        /\ Len(runResults) = Len(collected)
        /\ {runResults[k] : k \in 1..Len(runResults)} = {collected[k] : k \in 1..Len(collected)}
        /\ \A a, b \in 1..Len(runResults) :
              a < b =>
                  /\ runResults[a].investmentScore >= runResults[b].investmentScore
                  /\ runResults[a].investmentScore = runResults[b].investmentScore
                        => PositionIn(collected, runResults[a]) < PositionIn(collected, runResults[b])

\* A ranking that moved a result forward and that holds a tie.
C4_Witness ==
    /\ phase = "done"
    /\ runResults # collected
    /\ \E a, b \in 1..Len(runResults) :
          a < b /\ runResults[a].investmentScore = runResults[b].investmentScore

\* slice(0, 3) of the interactive runs, slice(0, 10) of the automated ones.
OutputSize == IF entry \in {"runEVE", "runOSRS"} THEN InteractiveTop ELSE AutomatedTop

\* C5: the list a run returns or displays is no longer than the output
\* size, than the number of items asked for, and than the number of
\* candidates analysed and collected in the run.
C5_LengthBounded ==
    phase = "done" =>
        /\ Len(recommendations) <= OutputSize
        /\ Len(recommendations) <= Len(collected)
        /\ (countInput > 0 /\ countInput \notin {NaN, NoCount})
              => Len(recommendations) <= countInput
        /\ entry \in {"runEVEAutomated", "runOSRSAutomated"}
              => Len(recommendations) <= successfulAnalyses

\* A run that collected more results than it displays.
C5_Witness ==
    /\ phase = "done"
    /\ Len(collected) > InteractiveTop
    /\ Len(recommendations) = InteractiveTop

\* The budget string as the run parses it.
ParsedBudget == IF EveRun THEN ParseISKAmount(budgetInput) ELSE ParseGoldAmount(budgetInput)

\* No series was requested and nothing was collected, ranked or returned.
NothingFetched ==
    /\ fetched = <<>> /\ replies = <<>> /\ delays = <<>>
    /\ runResults = <<>> /\ collected = <<>> /\ recommendations = <<>>
    /\ itemsChecked = 0 /\ successfulAnalyses = 0

\* C11: when the budget input does not parse to a number or parses to a
\* value <= 0, the run ends in an error outcome, no series fetch is invoked
\* and no result is collected.
C11_InvalidBudgetFails ==
    (ParsedBudget.nan \/ ParsedBudget.mant <= 0) =>
        /\ phase \in {"start", "error"}
        /\ NothingFetched

\* A run that ended in the error outcome on the budget "-5", a number that
\* is not positive.
C11_Witness ==
    /\ phase = "error"
    /\ budgetInput = <<"-", "5">>
    /\ ~ParsedBudget.nan /\ ParsedBudget.mant < 0

\* The entry points that take an item count.
TakesCount == entry \in {"runEVE", "runEVEAutomated", "runOSRS"}

\* C12: when the requested item count is non-numeric or <= 0, runEVE,
\* runEVEAutomated (maxItems) and runOSRS end in an error outcome before the
\* first series fetch and perform no fetch at all.
C12_InvalidCountFails ==
    (TakesCount /\ (countInput = NaN \/ countInput <= 0)) =>
        /\ phase \in {"start", "error"}
        /\ fetched = <<>>

\* A reply that is the failure indicator or holds an empty series.
FailedOrEmpty(reply) ==
    \/ reply = <<>>
    \/ EveRun /\ reply[1] = <<>>
    \/ OsrsRun /\ reply[1].daily \in {<<>>, <<{}>>}

NoDuplicates(s) == \A a, b \in 1..Len(s) : a # b => s[a] # s[b]

\* C13: a fetch that fails or returns an empty series does not abort the
\* run: the results are left unchanged, the item was counted exactly once
\* as checked, the loop goes on with the next item after the delay, and no
\* item is fetched a second time.
C13_FailureSkipped ==
    /\ [](NoDuplicates(fetched) /\ itemsChecked = Len(fetched))
    /\ [][(phase = "fetching" /\ replies' # replies /\ FailedOrEmpty(replies'[Len(replies')]))
            => /\ runResults' = runResults
               /\ successfulAnalyses' = successfulAnalyses
               /\ itemsChecked' = itemsChecked
               /\ fetched' = fetched
               /\ phase' = "delaying"]_vars
    /\ [][phase = "delaying"
            => \/ /\ phase' = "fetching"
                  /\ loopIndex' = loopIndex + 1
                  /\ fetched' = Append(fetched, itemsToAnalyze[loopIndex + 2].id)
                  /\ itemsChecked' = itemsChecked + 1
                  /\ runResults' = runResults
               \/ /\ phase' = "done"
                  /\ \/ loopIndex + 1 = Len(itemsToAnalyze)
                     \/ entry = "runEVE" /\ Len(runResults) >= EveItemCount]_vars

\* A finished run whose first fetch failed, whose second returned an empty
\* series, and which collected a later item.
C13_Witness ==
    /\ phase = "done"
    /\ Len(replies) >= 3
    /\ replies[1] = <<>>
    /\ replies[2] # <<>> /\ FailedOrEmpty(replies[2])
    /\ runResults # <<>>

\* C14: in the keep-going loop of runEVE a fetch is issued only while fewer
\* results than the target are collected and unvisited catalog entries
\* remain; when the loop has ended, the number of results equals the target
\* or every catalog entry was checked exactly once.
C14_KeepGoing ==
    /\ [][(entry = "runEVE" /\ fetched' # fetched)
            => /\ Len(runResults') < EveItemCount
               /\ Len(fetched) < catalogSize
               /\ \A k \in 1..Len(fetched) : fetched[k] # fetched'[Len(fetched')]]_vars
    /\ []((entry = "runEVE" /\ phase = "done")
            => \/ Len(collected) = EveItemCount
               \/ /\ itemsChecked = catalogSize
                  /\ {fetched[k] : k \in 1..Len(fetched)} = 1..catalogSize
                  /\ Len(fetched) = catalogSize)

\* A runEVE that reached its target of 2 after skipping an item, with
\* catalog entries left unvisited.
C14_Witness ==
    /\ entry = "runEVE" /\ phase = "done"
    /\ EveItemCount = 2 /\ Len(collected) = 2
    /\ Len(fetched) = 3 /\ catalogSize = 4

\* C15: between two consecutive series fetches of a run one delay of 1000
\* ms is started and completes, whatever the earlier fetch returned: every
\* reply starts a delay of 1000 ms, and a further fetch is issued only by
\* the step that ends that delay.
C15_DelayBetweenFetches ==
    /\ [](\A k \in 1..Len(delays) : delays[k] = 1000)
    /\ [](phase = "fetching" => Len(delays) = Len(fetched) - 1)
    /\ [][replies' # replies
            => /\ delays' = Append(delays, 1000)
               /\ phase' = "delaying"]_vars
    /\ [][(fetched' # fetched /\ fetched # <<>>)
            => /\ phase = "delaying"
               /\ Len(delays) = Len(fetched)
               /\ delays' = delays]_vars

\* A finished EVE run of four fetches, one failed, one whose candidate was
\* filtered out and one collected, with a delay after each.
C15_Witness ==
    /\ EveRun /\ phase = "done"
    /\ Len(fetched) = 4 /\ Len(delays) = 4
    /\ \E a, b, c \in 1..4 :
          /\ replies[a] = <<>>
          /\ ~FailedOrEmpty(replies[b])
          /\ \A x \in 1..Len(collected) : collected[x].id # fetched[b]
          /\ \E x \in 1..Len(collected) : collected[x].id = fetched[c]

\* Number of series fetches issued and not yet returned.
InFlight == Len(fetched) - Len(replies)

\* C16: at most one series fetch is in flight; the next fetch starts only
\* after the current one has returned and its analysis, collection and
\* delay are over; the ranking happens only after the loop has ended with
\* no fetch or delay pending.
C16_OneInFlight ==
    /\ [](InFlight \in {0, 1} /\ (InFlight = 1 <=> phase = "fetching"))
    /\ [][fetched' # fetched
            => /\ InFlight = 0
               /\ Len(delays) = Len(fetched)
               /\ phase \in {"start", "delaying"}]_vars
    /\ [](phase # "done" => (collected = <<>> /\ recommendations = <<>>))
    /\ [](phase = "done" => (InFlight = 0 /\ Len(delays) = Len(fetched)))

\* A finished automated OSRS run of three fetches that ranked two results.
C16_Witness ==
    /\ entry = "runOSRSAutomated" /\ phase = "done"
    /\ Len(fetched) = 3 /\ InFlight = 0
    /\ Len(collected) = 2 /\ Len(recommendations) = 2

\* The catalog the selection draws from: TRADEABLE_ITEMS, or the entries
\* of itemsData that the filter keeps.
Candidates ==
    IF EveRun THEN TRADEABLE_ITEMS(catalogSize)
    ELSE FilterCatalog(itemsData(catalogSize), catalogSize, runBudget, withMembers)

\* A run that got past its input checks, asked for a positive item count.
CountedRun ==
    /\ TakesCount
    /\ phase \notin {"start", "error"}
    /\ countInput > 0 /\ countInput \notin {NaN, NoCount}

\* C17 as stated: the series fetched in a run are distinct entries of one
\* subset of the catalog that has exactly min(requestedCount, catalogSize)
\* entries.
C17_SelectionSized ==
    CountedRun =>
        /\ NoDuplicates(fetched)
        /\ \A k \in 1..Len(fetched) : \E c \in 1..Len(Candidates) : Candidates[c].id = fetched[k]
        /\ Len(fetched) <= Min(countInput, Len(Candidates))

\* C17 (amended): the selection is a duplicate-free list of catalog entries
\* and the fetches of the run are a prefix of it, each entry fetched at most
\* once.  In runOSRS, and in runEVEAutomated with a positive maxItems, it
\* has exactly min(requestedCount, catalogSize) entries; in runEVE it is the
\* whole shuffled catalog and min(requestedCount, catalogSize) bounds the
\* results collected, not the entries fetched.
C17_Selection ==
    phase \notin {"start", "error"} =>
        /\ NoDuplicates(itemsToAnalyze)
        /\ \A k \in 1..Len(itemsToAnalyze) :
              \E c \in 1..Len(Candidates) : Candidates[c] = itemsToAnalyze[k]
        /\ Len(fetched) <= Len(itemsToAnalyze)
        /\ \A k \in 1..Len(fetched) : fetched[k] = itemsToAnalyze[k].id
        /\ (CountedRun /\ entry # "runEVE")
              => Len(itemsToAnalyze) = Min(countInput, Len(Candidates))
        /\ (entry = "runEVEAutomated" /\ countInput = NoCount)
              => Len(itemsToAnalyze) = catalogSize
        /\ entry = "runOSRSAutomated" => Len(itemsToAnalyze) = Len(Candidates)
        /\ entry = "runEVE"
              => /\ Len(itemsToAnalyze) = catalogSize
                 /\ Len(runResults) <= Min(countInput, catalogSize)

\* A finished runOSRS that was asked for 2 of 3 candidates and fetched 2.
C17_Witness ==
    /\ entry = "runOSRS" /\ phase = "done"
    /\ countInput = 2 /\ Len(Candidates) = 3
    /\ Len(itemsToAnalyze) = 2 /\ Len(fetched) = 2

\* C18: when the catalog source is empty the run ends in a run-level error
\* with no series fetch and no ranked list; it never completes normally
\* with an empty recommendation list.
C18_EmptyCatalogFails ==
    catalogSize = 0 =>
        /\ phase \in {"start", "error"}
        /\ NothingFetched

\* C19: in every state of an automated run totalAnalyzed (successfulAnalyses)
\* is the number of results in the collection and totalChecked
\* (itemsChecked) the number of series fetches issued; at the end
\* totalAnalyzed <= totalChecked <= number of selected items, and at most
\* min(10, totalAnalyzed) recommendations are returned.
C19_RunCounters ==
    entry \in {"runEVEAutomated", "runOSRSAutomated"} =>
        /\ successfulAnalyses = Len(runResults)
        /\ itemsChecked = Len(fetched)
        /\ phase = "done" =>
              /\ successfulAnalyses <= itemsChecked
              /\ itemsChecked <= Len(itemsToAnalyze)
              /\ Len(recommendations) <= Min(10, successfulAnalyses)

\* A finished runEVEAutomated that checked 4 items and analysed 3.
C19_Witness ==
    /\ entry = "runEVEAutomated" /\ phase = "done"
    /\ itemsChecked = 4 /\ successfulAnalyses = 3
    /\ Len(recommendations) = 3

\* C20: on a series of at least 2 points whose divisor is zero (first price
\* 0 for the price change, mean price 0 for the volatility) the feature
\* function returns 0, never an infinite or not-a-number value, so every
\* feature is finite.
C20_ZeroDivisorGivesZero ==
    (featDone /\ Len(series) >= 2) =>
        /\ series[1] = 0 => (featEve.priceChange = 0 /\ featOsrs.priceChange = 0)
        /\ SumSeq(series) = 0 => (featEve.volatility = 0 /\ featOsrs.volatility = 0)
        /\ \A f \in {featEve, featOsrs} :
              IsFinite(f.priceChange) /\ IsFinite(f.volatility) /\ IsFinite(f.momentum)

\* C21: in both variants the momentum bucket adds nothing when the momentum
\* is zero or negative: the score of such inputs is the score the same price
\* change, volatility, price and budget get with momentum 0.
C21_NegativeMomentumNeutral ==
    LET a == scoreArgs
    IN  a.momentum <= 0 =>
          /\ "eve" \in scoreDone =>
                scoreEve = EveCalculateInvestmentScore(a.priceChange,
                               a.volatility, 0, a.money[1], a.money[2])
          /\ "osrs" \in scoreDone =>
                scoreOsrs = OsrsCalculateInvestmentScore(a.priceChange,
                                a.volatility, 0, a.money[1], a.money[2])

-----------------------------------------------------------------------------
(* Specification SpecNormalize: the series each analyzeItem builds from the *)
(* raw reply before it calls the feature functions.  A raw EVE record is   *)
(* [date, average], a raw OSRS entry <<timestamp, price>> with timestamp   *)
(* the parseInt of its key (two keys such as "1" and "01" give two entries *)
(* of one timestamp); a price that is absent from the reply is <<>>.       *)

\* Longest raw history.
MaxRaw == 3

RawDates == {1, 2}

RawPrices == {<<>>, <<100>>, <<140>>}

RawRecords == [date : RawDates, average : RawPrices]

RawHistories == UNION {[1..n -> RawRecords] : n \in 0..MaxRaw}

RawDailies == SUBSET (RawDates \X RawPrices)

InitNormalize ==
    /\ rawHistory \in RawHistories
    /\ rawDaily \in RawDailies
    /\ normDone = {}
    /\ normEve = <<>>
    /\ normOsrs = <<>>
    /\ IdleScore
    /\ IdleFeatures
    /\ IdleAmount
    /\ IdleFilter
    /\ IdleRun

\* eve.js analyzeItem up to the feature calls: history.sort(...) on a
\* history that is not empty.
NormalizeEve ==
    /\ "eve" \notin normDone
    /\ rawHistory # <<>>
    /\ normEve' = EveSortByDate(rawHistory)
    /\ normDone' = normDone \cup {"eve"}
    /\ UNCHANGED <<rawHistory, rawDaily, normOsrs, notNormVars>>

\* osrs.js analyzeItem up to the feature calls: convertToArray(priceData.daily).
NormalizeOsrs ==
    /\ "osrs" \notin normDone
    /\ normOsrs' = ConvertToArray(rawDaily)
    /\ normDone' = normDone \cup {"osrs"}
    /\ UNCHANGED <<rawHistory, rawDaily, normEve, notNormVars>>

NextNormalize == NormalizeEve \/ NormalizeOsrs

SpecNormalize == InitNormalize /\ [][NextNormalize]_vars

\* C22: after normalization the timestamps are strictly increasing, and of
\* the raw points that share a timestamp only the first-seen one is kept,
\* for the EVE list and for the OSRS map.
C22_StrictlyIncreasing ==
    /\ "eve" \in normDone =>
          /\ \A i \in 1..(Len(normEve) - 1) : normEve[i].date < normEve[i + 1].date
          /\ \A i \in 1..Len(normEve) :
                LET same == {j \in 1..Len(rawHistory) :
                                rawHistory[j].date = normEve[i].date}
                    firstSeen == CHOOSE j \in same : \A k \in same : j <= k
                IN  normEve[i] = rawHistory[firstSeen]
    /\ "osrs" \in normDone =>
          \A i \in 1..(Len(normOsrs) - 1) :
              normOsrs[i].timestamp < normOsrs[i + 1].timestamp

\* C23: a raw entry without a price is dropped: no point of the series handed
\* to the feature functions lacks its price.
C23_PricelessDropped ==
    /\ "eve" \in normDone =>
          \A i \in 1..Len(normEve) : normEve[i].average # <<>>
    /\ "osrs" \in normDone =>
          \A i \in 1..Len(normOsrs) : normOsrs[i].price # <<>>

\* C24: on a series of n points the momentum of both markets is 0 when
\* n < 60; when n >= 60 (and the older mean is positive) it is
\* (mean of the last 30 prices - mean of the 30 prices before them) / (mean of
\* the 30 prices before them) * 100, to the nearest grid value, and a series
\* that differs only before its last 60 points has the same momentum.
C24_MomentumWindows ==
    featDone =>
        LET n       == Len(series)
            recent  == SumRange(series, n - 29, n)
            older   == SumRange(series, n - 59, n - 30)
            changed == [i \in 1..n |-> IF i <= n - 60 THEN 1 ELSE series[i]]
        IN  /\ n < 60 => (featEve.momentum = 0 /\ featOsrs.momentum = 0)
            /\ (n >= 60 /\ older > 0) =>
                  /\ featEve.momentum = RoundDiv((recent - older) * 100 * Unit, older)
                  /\ featOsrs.momentum = featEve.momentum
                  /\ EveCalculateMomentum(EveHistoryOf(changed)) = featEve.momentum
                  /\ OsrsCalculateMomentum(OsrsPointsOf(changed)) = featOsrs.momentum

\* The functions applied to 90 points rising from 100 to 150: the first 30
\* points differ from the 30 before the recent window, and the momentum is
\* not zero.
C24_Witness ==
    /\ featDone
    /\ series = Ramp(90, 100, 150)
    /\ series[1] # series[31]
    /\ featEve.momentum > 0
    /\ featOsrs.momentum = featEve.momentum

\* C25: for a positive current price the EVE score is 50 plus the volatility,
\* momentum and price-change buckets, plus the affordability bucket (20, 15,
\* 10, 5 or 0 as min(budget / currentPrice, 100) is >= 100, >= 50, >= 20,
\* >= 10 or below, each threshold inclusive), plus a breakout bonus of 10
\* exactly when momentum > 5, priceChange > 15 and volatility > 8 (all
\* strict), the sum clamped to [0, 100].
C25_EveScoreFormula ==
    LET a      == scoreArgs
        price  == a.money[1]
        budget == a.money[2]
        volatilityBucket == IF a.volatility >= 10 * Unit THEN 25 * Q
                            ELSE a.volatility * 10
        momentumBucket == IF a.momentum <= 0 THEN 0
                          ELSE IF a.momentum >= 10 * Unit THEN 25 * Q
                          ELSE a.momentum * 10
        priceChangeBucket == IF a.priceChange >= 20 * Unit THEN 20 * Q
                             ELSE IF a.priceChange > 0 THEN a.priceChange * 4
                             ELSE IF a.priceChange < 0 /\ a.priceChange > -10 * Unit
                                  THEN 10 * Q
                             ELSE 0
        affordabilityBucket == IF budget >= 100 * price THEN 20 * Q
                               ELSE IF budget >= 50 * price THEN 15 * Q
                               ELSE IF budget >= 20 * price THEN 10 * Q
                               ELSE IF budget >= 10 * price THEN 5 * Q
                               ELSE 0
        breakout == /\ a.momentum > 5 * Unit
                    /\ a.priceChange > 15 * Unit
                    /\ a.volatility > 8 * Unit
        total == 50 * Q + volatilityBucket + momentumBucket + priceChangeBucket
                 + affordabilityBucket + (IF breakout THEN 10 * Q ELSE 0)
    IN  ("eve" \in scoreDone /\ price > 0) =>
            scoreEve = (IF total < 0 THEN 0
                        ELSE IF total > 100 * Q THEN 100 * Q ELSE total)

\* The EVE variant applied with the momentum exactly at the bonus threshold
\* (5), price change and volatility above theirs, and budget / price just
\* below the affordability threshold 10: no bonus, no affordability points,
\* a score of 97.5 and a fraction.
C25_Witness ==
    /\ "eve" \in scoreDone
    /\ scoreArgs.momentum = 5 * Unit
    /\ scoreArgs.priceChange = 15 * Unit + 1
    /\ scoreArgs.volatility = 8 * Unit + 1
    /\ scoreArgs.money = <<1, 9>>
    /\ scoreEve < 100 * Q

\* C27: for a volatility that is not negative and a positive current price
\* and budget, the EVE score is at least 50, whatever the momentum and the
\* price change.
C27_EveScoreAtLeastBase ==
    (/\ "eve" \in scoreDone
     /\ scoreArgs.volatility >= 0
     /\ scoreArgs.money[1] > 0
     /\ scoreArgs.money[2] > 0) => scoreEve >= 50 * Q

\* The EVE variant applied to the worst inputs of the grid: volatility 0,
\* momentum and price change at their most negative, a price the budget
\* does not cover once: the score is exactly 50.
C27_Witness ==
    /\ "eve" \in scoreDone
    /\ scoreArgs.volatility = 0
    /\ scoreArgs.momentum = -Extreme * Unit
    /\ scoreArgs.priceChange = -Extreme * Unit
    /\ scoreArgs.money = <<Extreme, 1>>
    /\ scoreEve = 50 * Q

\* C28: the EVE score does not decrease when the price change increases,
\* the volatility, momentum, price and budget being the same.
C28_MonotoneInPriceChange ==
    LET a == scoreArgs
    IN  "eve" \in scoreDone =>
            \A higher \in PriceChangeInputs :
                higher >= a.priceChange =>
                    scoreEve <= EveCalculateInvestmentScore(higher, a.volatility,
                                    a.momentum, a.money[1], a.money[2])

\* C29: every collected result has unitsCanBuy >= 1: the budget covers at
\* least one unit of the item at its current price.
C29_AtLeastOneUnit ==
    \A x \in 1..Len(runResults) : runResults[x].unitsCanBuy >= 1

\* C30: in the OSRS runs the unitsCanBuy of every collected result, computed
\* from the last price of the fetched series, exceeds neither the buy limit
\* of the item, when it has one, nor 10% of its daily volume.
C30_WithinLimitAndVolume ==
    OsrsRun =>
        \A x \in 1..Len(runResults) :
            LET r    == runResults[x]
                item == OsrsEntry(r.id)
            IN  /\ item.limit # <<>> => r.unitsCanBuy <= item.limit[1]
                /\ r.unitsCanBuy * 10 <= item.volume[1]

-----------------------------------------------------------------------------
(* Specification SpecLive: the runs of Spec in which every await of the    *)
(* loop returns: a pending fetch eventually returns and a started delay    *)
(* timer eventually fires.                                                 *)

\* await fetchMarketHistory(...) / await fetchPriceHistory(...) returns:
\* the step of Next out of "fetching", one of the four ...Fetched actions.
FetchReturns == phase = "fetching" /\ phase' = "delaying"

\* await delay(1000) returns: the step of Next out of "delaying", one of the
\* four ...Delayed actions.
DelayReturns == phase = "delaying" /\ phase' \in {"fetching", "done"}

SpecLive == Spec /\ WF_phase(FetchReturns) /\ WF_phase(DelayReturns)

\* A budget that parses to a positive number, an item count that is
\* positive where one is asked for, and at least one candidate for the
\* interactive runs, which refuse to analyse 0 items.
ValidRunInputs ==
    /\ ~ParsedBudget.nan /\ ParsedBudget.mant > 0
    /\ entry \in {"runEVE", "runOSRS"} => (countInput # NaN /\ countInput > 0)
    /\ entry = "runEVEAutomated" =>
          (countInput = NoCount \/ (countInput # NaN /\ countInput > 0))
    /\ entry = "runEVE" => catalogSize > 0
    /\ entry = "runOSRS" =>
          FilterCatalog(itemsData(catalogSize), catalogSize,
                        DecimalToInt(ParsedBudget), withMembers) # <<>>

\* C26: when every fetch and every delay eventually returns, a run with a
\* valid budget and item count enters the loop or, with nothing to analyse,
\* goes straight to Done; a run that has entered the loop eventually leaves
\* it, ranks and reaches Done, whatever the fetches return; each fetch is
\* issued at the loop index that follows the previous one, for an item that
\* was not fetched before.
C26_Terminates ==
    /\ [][(phase = "start" /\ ValidRunInputs) => phase' \in {"fetching", "done"}]_vars
    /\ (phase \in {"fetching", "delaying"}) ~> (phase = "done")
    /\ [](phase = "done" => runResults = SortByScore(collected))
    /\ [][fetched' # fetched
            => /\ loopIndex' = Len(fetched)
               /\ fetched' = Append(fetched, itemsToAnalyze'[loopIndex' + 1].id)
               /\ \A k \in 1..Len(fetched) : fetched[k] # fetched'[Len(fetched')]]_vars

\* A finished runOSRSAutomated whose loop went through three items, with a
\* failed fetch among them.
C26_Witness ==
    /\ entry = "runOSRSAutomated" /\ phase = "done"
    /\ Len(fetched) = 3 /\ loopIndex = 3
    /\ \E k \in 1..3 : replies[k] = <<>>

=============================================================================
